---- MODULE Spec2Model ----
(***************************************************************************)
(* ken: durable session orchestration.  The store (sessions and events     *)
(* tables of storage.rs) is shared by short-lived command processes        *)
(* (wake, process, request); every SQL statement is one atomic step, and   *)
(* the statements of different commands interleave freely.                 *)
(***************************************************************************)
EXTENDS Integers, Sequences, FiniteSets, TLC

\* ------------------------------------------------------------------ bounds
\* Concurrent command slots (processes running against the same ken.db).
NumProcs == 2
\* Session ids that can be minted (Uuid::new_v4 never repeats; ids are 1..MaxSessions).
MaxSessions == 3
\* Commands started in one behaviour.
MaxCmds == 5
LongTimeout == 3
MaxSerialCmds == 7

Procs == 1..NumProcs
Ids == 1..MaxSessions

\* ------------------------------------------------------------- null values
\* Option<String> = None for parent_id, for checkpoint/result, for trigger.
NoId == 0
Null == "<null>"
NoText == << >>

\* --------------------------------------------------------- SessionStatus
Statuses == {"pending", "active", "sleeping", "complete", "failed"}

as_str(status) ==
  CASE status = "Pending" -> "pending"
    [] status = "Active" -> "active"
    [] status = "Sleeping" -> "sleeping"
    [] status = "Complete" -> "complete"
    [] status = "Failed" -> "failed"

\* A decoder without the arm for "failed": it falls to the default.
from_str_NoFailed(s) ==
  CASE s = "pending" -> "Pending"
    [] s = "active" -> "Active"
    [] s = "sleeping" -> "Sleeping"
    [] s = "complete" -> "Complete"
    [] OTHER -> "Pending"

from_str(s) ==
  CASE s = "pending" -> "Pending"
    [] s = "active" -> "Active"
    [] s = "sleeping" -> "Sleeping"
    [] s = "complete" -> "Complete"
    [] s = "failed" -> "Failed"
    [] OTHER -> "Pending"

\* ------------------------------------------------------------- JSON text
\* A JSON text is a sequence of tokens; a token is a punctuation mark, a
\* string literal (text, or the id of session n) or a number.
Punct(c) == [t |-> "p", s |-> c, n |-> 0]
Str(s) == [t |-> "s", s |-> s, n |-> 0]
IdStr(i) == [t |-> "s", s |-> "id", n |-> i]
Num(k) == [t |-> "n", s |-> "", n |-> k]

Placeholder == "__CHILDREN__"

\* serde_json::Value of a request's trigger: a one-key object whose payload
\* is a string, an array of session ids, or a number.
JObjStr(key, s) == [key |-> key, kind |-> "str", s |-> s, ids |-> << >>, n |-> 0]
JObjIds(key, ids) == [key |-> key, kind |-> "arr", s |-> "", ids |-> ids, n |-> 0]
JObjNum(key, k) == [key |-> key, kind |-> "num", s |-> "", ids |-> << >>, n |-> k]

RECURSIVE IdsBody(_)
IdsBody(ids) ==
  IF ids = << >> THEN << >>
  ELSE IF Len(ids) = 1 THEN << IdStr(ids[1]) >>
  ELSE << IdStr(ids[1]), Punct(",") >> \o IdsBody(Tail(ids))

\* serde_json::to_string(&Vec<String>)
IdsToJson(ids) == << Punct("[") >> \o IdsBody(ids) \o << Punct("]") >>

\* serde_json::to_string(&Value)
ValueToString(v) ==
  << Punct("{"), Str(v.key), Punct(":") >>
  \o (CASE v.kind = "str" -> << Str(v.s) >>
        [] v.kind = "arr" -> IdsToJson(v.ids)
        [] v.kind = "num" -> << Num(v.n) >>)
  \o << Punct("}") >>

\* str::contains, on the contents of the string literals the model uses
StrContains(s, sub) == s = sub \/ (sub = Placeholder /\ s = "x__CHILDREN__y")

ContainsStr(text, sub) ==
  \E i \in 1..Len(text) : text[i].t = "s" /\ StrContains(text[i].s, sub)

\* str::replace of the quoted literal "s" by the text `by`
RECURSIVE ReplaceStr(_, _, _)
ReplaceStr(text, s, by) ==
  IF text = << >> THEN << >>
  ELSE (IF Head(text) = Str(s) THEN by ELSE << Head(text) >>)
       \o ReplaceStr(Tail(text), s, by)

\* ---------------------------------------------------------------- Trigger
TriggerErr == [ok |-> FALSE, tag |-> "", ids |-> << >>, n |-> 0]
AllComplete(ids) == [ok |-> TRUE, tag |-> "all_complete", ids |-> ids, n |-> 0]
AnyComplete(ids) == [ok |-> TRUE, tag |-> "any_complete", ids |-> ids, n |-> 0]
TimeoutSeconds(k) == [ok |-> TRUE, tag |-> "timeout_seconds", ids |-> << >>, n |-> k]

\* The elements of a JSON array of strings, given without its brackets:
\* [ok, ids]; a string that is no session id reads as the id NoId names.
RECURSIVE ParseIdList(_)
ParseIdList(body) ==
  IF body = << >> THEN [ok |-> TRUE, ids |-> << >>]
  ELSE IF Head(body).t # "s" THEN [ok |-> FALSE, ids |-> << >>]
  ELSE IF Len(body) = 1 THEN [ok |-> TRUE, ids |-> << Head(body).n >>]
  ELSE IF body[2] # Punct(",") \/ Len(body) = 2 THEN [ok |-> FALSE, ids |-> << >>]
  ELSE LET rest == ParseIdList(SubSeq(body, 3, Len(body)))
       IN [ok |-> rest.ok, ids |-> << Head(body).n >> \o rest.ids]

\* serde_json::from_str::<Trigger>: an externally tagged enum, one key.
SerdeTrigger(json) ==
  IF Len(json) < 5 THEN TriggerErr
  ELSE IF ~(json[1] = Punct("{") /\ json[2].t = "s" /\ json[3] = Punct(":")
            /\ json[Len(json)] = Punct("}")) THEN TriggerErr
  ELSE LET key == json[2].s
           payload == SubSeq(json, 4, Len(json) - 1)
       IN IF key \in {"all_complete", "any_complete"}
          THEN IF Len(payload) >= 2 /\ payload[1] = Punct("[")
                  /\ payload[Len(payload)] = Punct("]")
               THEN LET r == ParseIdList(SubSeq(payload, 2, Len(payload) - 1))
                    IN IF ~r.ok THEN TriggerErr
                       ELSE IF key = "all_complete" THEN AllComplete(r.ids)
                       ELSE AnyComplete(r.ids)
               ELSE TriggerErr
          ELSE IF key = "timeout_seconds"
          THEN IF Len(payload) = 1 /\ payload[1].t = "n"
               THEN TimeoutSeconds(payload[1].n) ELSE TriggerErr
          ELSE TriggerErr

\* A parser that knows no timeout_seconds variant.
from_json_NoTimeout(json) ==
  IF ContainsStr(json, Placeholder) THEN AllComplete(<< >>)
  ELSE IF SerdeTrigger(json).tag = "timeout_seconds" THEN TriggerErr
  ELSE SerdeTrigger(json)

\* Trigger::from_json
from_json(json) ==
  IF ContainsStr(json, Placeholder) THEN AllComplete(<< >>)
  ELSE SerdeTrigger(json)

\* serde_json::to_string(&Trigger): #[derive(Serialize)] with snake_case
\* tags writes {"<tag>":<payload>}.
Trigger_to_string(trigger) ==
  IF trigger.tag = "timeout_seconds"
  THEN ValueToString(JObjNum(trigger.tag, trigger.n))
  ELSE ValueToString(JObjIds(trigger.tag, trigger.ids))

\* ------------------------------------------------------- Session and Event
\* Session::new (session.rs): the id is minted by the caller's Uuid::new_v4.
Session_new(id, ken, task, parent_id, now) ==
  [id |-> id, ken |-> ken, task |-> task, status |-> "Pending",
   parent_id |-> parent_id, trigger |-> NoText, checkpoint |-> Null,
   result |-> Null, created_at |-> now, updated_at |-> now]

\* Option<String> data of an event: none, a plain string, or a JSON text
\* (for a message: the prefix in s and the quoted text in json).
NoData == [kind |-> "none", s |-> "", json |-> << >>]
StrData(s) == [kind |-> "str", s |-> s, json |-> << >>]
JsonData(text) == [kind |-> "json", s |-> "", json |-> text]
MsgData(s, text) == [kind |-> "msg", s |-> s, json |-> text]

\* Option<String> trigger as event data
TriggerData(trigger) == IF trigger = NoText THEN NoData ELSE JsonData(trigger)

Event_new(event_type, session_id, data) ==
  [event_type |-> event_type, session_id |-> session_id, data |-> data]

\* ---------------------------------------------------------------- Storage
\* A sessions row holds the status in its string form.
ToRow(session) == [session EXCEPT !.status = as_str(session.status)]
FromRow(row) == [row EXCEPT !.status = from_str(row.status)]

RowsOf(tbl, id) == {i \in 1..Len(tbl) : tbl[i].id = id}
HasId(tbl, id) == RowsOf(tbl, id) # {}
RowOf(tbl, id) == tbl[CHOOSE i \in RowsOf(tbl, id) : TRUE]
TableIds(tbl) == {tbl[i].id : i \in 1..Len(tbl)}

\* Storage::insert_session: the primary key rejects a second row of an id.
insert_session(tbl, session) ==
  IF HasId(tbl, session.id) THEN [ok |-> FALSE, tbl |-> tbl]
  ELSE [ok |-> TRUE, tbl |-> Append(tbl, ToRow(session))]

\* A lookup that answers a missing id with a default active session.
get_session_Lenient(tbl, id) ==
  IF HasId(tbl, id) THEN [ok |-> TRUE, session |-> FromRow(RowOf(tbl, id))]
  ELSE [ok |-> TRUE,
        session |-> [Session_new(id, "", "", NoId, 0) EXCEPT !.status = "Active"]]

\* Storage::get_session
get_session(tbl, id) ==
  IF HasId(tbl, id) THEN [ok |-> TRUE, session |-> FromRow(RowOf(tbl, id))]
  ELSE [ok |-> FALSE, session |-> Session_new(NoId, "", "", NoId, 0)]

\* Storage::get_sessions_by_status: rows in the table's (rowid) order
RECURSIVE SelectStatus(_, _)
SelectStatus(tbl, s) ==
  IF tbl = << >> THEN << >>
  ELSE (IF Head(tbl).status = s THEN << FromRow(Head(tbl)) >> ELSE << >>)
       \o SelectStatus(Tail(tbl), s)

get_sessions_by_status(tbl, status) == SelectStatus(tbl, as_str(status))

\* An UPDATE that writes updated_at and leaves the status as it was.
update_session_status_KeepStatus(tbl, id, status, updated_at) ==
  [i \in 1..Len(tbl) |->
     IF tbl[i].id = id THEN [tbl[i] EXCEPT !.updated_at = updated_at] ELSE tbl[i]]

\* Storage::update_session_status: UPDATE ... WHERE id = ?, every row of that
\* id (at most one)
update_session_status(tbl, id, status, updated_at) ==
  [i \in 1..Len(tbl) |->
     IF tbl[i].id = id
     THEN [tbl[i] EXCEPT !.status = as_str(status), !.updated_at = updated_at]
     ELSE tbl[i]]

\* A completion that does not store the result.
complete_session_NoResult(tbl, id, result, updated_at) ==
  update_session_status(tbl, id, "Complete", updated_at)

\* A completion whose UPDATE has no WHERE clause: every row is written.
complete_session_AllRows(tbl, id, result, updated_at) ==
  [i \in 1..Len(tbl) |->
     [tbl[i] EXCEPT !.status = as_str("Complete"), !.result = result,
                    !.updated_at = updated_at]]

\* Storage::complete_session
complete_session(tbl, id, result, updated_at) ==
  [i \in 1..Len(tbl) |->
     IF tbl[i].id = id
     THEN [tbl[i] EXCEPT !.status = "complete", !.result = result,
                         !.updated_at = updated_at]
     ELSE tbl[i]]

\* A sleep that does not store the checkpoint.
sleep_session_NoCheckpoint(tbl, id, trigger, checkpoint, updated_at) ==
  [i \in 1..Len(tbl) |->
     IF tbl[i].id = id
     THEN [tbl[i] EXCEPT !.status = "sleeping", !.trigger = trigger,
                         !.updated_at = updated_at]
     ELSE tbl[i]]

\* Storage::sleep_session
sleep_session(tbl, id, trigger, checkpoint, updated_at) ==
  [i \in 1..Len(tbl) |->
     IF tbl[i].id = id
     THEN [tbl[i] EXCEPT !.status = "sleeping", !.trigger = trigger,
                         !.checkpoint = checkpoint, !.updated_at = updated_at]
     ELSE tbl[i]]

\* Storage::insert_event
insert_event(evs, event) == Append(evs, event)

\* Storage::try_update_session_status: UPDATE ... WHERE id = ? AND status = ?,
\* true iff a row was updated.
try_update_session_status(tbl, id, expected, new, updated_at) ==
  IF HasId(tbl, id) /\ RowOf(tbl, id).status = as_str(expected)
  THEN [ok |-> TRUE, tbl |-> update_session_status(tbl, id, new, updated_at)]
  ELSE [ok |-> FALSE, tbl |-> tbl]

\* The statements of Storage::spawn_and_sleep between BEGIN and COMMIT, run on
\* the transaction's own view of the tables.  Statement number failAt (1..n
\* the inserts, n+1 the parent's update, n+2 the event; 0: none) fails with a
\* database error; an insert also fails on an id the table holds.
RECURSIVE InsertChildren(_, _, _, _)
InsertChildren(tbl, children, i, failAt) ==
  IF i > Len(children) THEN [ok |-> TRUE, tbl |-> tbl]
  ELSE IF failAt = i THEN [ok |-> FALSE, tbl |-> tbl]
  ELSE LET r == insert_session(tbl, children[i])
       IN IF r.ok THEN InsertChildren(r.tbl, children, i + 1, failAt) ELSE r

ChildIds(children) == [i \in 1..Len(children) |-> children[i].id]

SpawnAndSleepBody(tbl, evs, parent_id, children, trigger, checkpoint, updated_at, failAt) ==
  LET n == Len(children)
      ins == InsertChildren(tbl, children, 1, failAt)
      slept == sleep_session(ins.tbl, parent_id, trigger, checkpoint, updated_at)
      logged == insert_event(evs, Event_new("children_spawned", parent_id,
                                            JsonData(IdsToJson(ChildIds(children)))))
  IN IF ~ins.ok THEN [ok |-> FALSE, tbl |-> ins.tbl, evs |-> evs]
     ELSE IF failAt = n + 1 THEN [ok |-> FALSE, tbl |-> ins.tbl, evs |-> evs]
     ELSE IF failAt = n + 2 THEN [ok |-> FALSE, tbl |-> slept, evs |-> evs]
     ELSE [ok |-> TRUE, tbl |-> slept, evs |-> logged]

\* The composite without its ROLLBACK: the body's writes stay.
spawn_and_sleep_NoRollback(tbl, evs, parent_id, children, trigger, checkpoint, updated_at, failAt) ==
  LET r == SpawnAndSleepBody(tbl, evs, parent_id, children, trigger, checkpoint,
                             updated_at, failAt)
  IN [ok |-> r.ok, tbl |-> r.tbl, evs |-> r.evs,
      ids |-> IF r.ok THEN ChildIds(children) ELSE << >>]

\* Storage::spawn_and_sleep: COMMIT publishes the body's writes, ROLLBACK
\* drops them; other connections see the tables only as committed.
spawn_and_sleep(tbl, evs, parent_id, children, trigger, checkpoint, updated_at, failAt) ==
  LET r == SpawnAndSleepBody(tbl, evs, parent_id, children, trigger, checkpoint,
                             updated_at, failAt)
  IN IF r.ok THEN [ok |-> TRUE, tbl |-> r.tbl, evs |-> r.evs, ids |-> ChildIds(children)]
     ELSE [ok |-> FALSE, tbl |-> tbl, evs |-> evs, ids |-> << >>]

\* -------------------------------------------------------- agent requests
ChildSpec(ken, task) == [ken |-> ken, task |-> task]

Complete(session_id, result) ==
  [type |-> "complete", session_id |-> session_id, result |-> result,
   children |-> << >>, trigger |-> JObjNum("", 0), checkpoint |-> Null]
Sleep(session_id, trigger, checkpoint) ==
  [type |-> "sleep", session_id |-> session_id, result |-> Null,
   children |-> << >>, trigger |-> trigger, checkpoint |-> checkpoint]
SpawnAndSleep(session_id, children, trigger, checkpoint) ==
  [type |-> "spawn_and_sleep", session_id |-> session_id, result |-> Null,
   children |-> children, trigger |-> trigger, checkpoint |-> checkpoint]
NoRequest == Complete(NoId, Null)

\* The trigger stored as the agent sent it, the placeholder left in place.
resolve_trigger_Verbatim(trigger, child_ids) ==
  ValueToString(trigger)

\* resolve_trigger (request.rs)
resolve_trigger(trigger, child_ids) ==
  LET trigger_str == ValueToString(trigger)
  IN IF \E i \in 1..Len(trigger_str) : trigger_str[i] = Str(Placeholder)
     THEN ReplaceStr(trigger_str, Placeholder, IdsToJson(child_ids))
     ELSE trigger_str

\* ------------------------------------------------------------------ state
VARIABLES
  table,    \* the sessions table: rows in rowid (insertion) order
  events,   \* the events table: rows in insertion order
  procs,    \* the command processes: slot -> control point and locals
  clock,    \* the system clock: the next instant Utc::now() returns
  nextId,   \* the next id Uuid::new_v4() returns
  cmds      \* commands started so far

vars == << table, events, procs, clock, nextId, cmds >>

\* What a command wrote to its standard output and how it exited.
NoOut ==
  [exit |-> "", error |-> "", action |-> "", id |-> NoId, ken |-> "", task |-> "",
   checkpoint |-> Null, resp |-> "", data |-> "", children |-> << >>,
   err_status |-> ""]

\* main.rs: Ok(()) exits 0, Err(e) prints the error and exits 1
ExitOk(out) == [out EXCEPT !.exit = "ok"]
ExitErr(error) == [NoOut EXCEPT !.exit = "err", !.error = error]

\* AgentResponse::success / AgentResponse::error printed by request::run
NoResponseData == [some |-> FALSE, children |-> << >>]
ChildrenData(ids) == [some |-> TRUE, children |-> ids]
ResponseSuccess(data) ==
  [NoOut EXCEPT !.resp = "ok", !.data = IF data.some THEN "children" ELSE "",
                !.children = data.children]
\* The status printed by its Debug name instead of as_str.
ResponseNotActive_Debug(session_id, status) ==
  [NoOut EXCEPT !.resp = "not active", !.id = session_id, !.err_status = status]

ResponseNotActive(session_id, status) ==
  [NoOut EXCEPT !.resp = "not active", !.id = session_id, !.err_status = as_str(status)]

\* process.rs lines 77-86 and 93
ActionSpawn(session) ==
  [NoOut EXCEPT !.action = "spawn", !.id = session.id, !.ken = session.ken,
                !.task = session.task, !.checkpoint = session.checkpoint]
ActionNone == [NoOut EXCEPT !.action = "none"]

NoProc ==
  [kind |-> "none", pc |-> "idle", now |-> 0, req |-> NoRequest, news |-> << >>,
   ids |-> << >>, sleeping |-> << >>, idx |-> 0, k |-> 0, pending |-> << >>,
   j |-> 0, nact |-> 0, busy0 |-> {}, woke |-> {}, out |-> NoOut]

Free(p) == procs[p].pc \in {"idle", "done"}
\* A new command takes the lowest free slot (the slots are interchangeable).
CanStart(p) == Free(p) /\ \A q \in 1..(p - 1) : ~Free(q)

\* The command of slot p has returned: its locals are gone, its output stays.
Done(pr, out) ==
  [NoProc EXCEPT !.kind = pr.kind, !.pc = "done", !.nact = pr.nact,
                 !.busy0 = pr.busy0, !.woke = pr.woke, !.out = out]

\* The root of the workflow tree of row i: up the parent_id links.
RECURSIVE RootOf(_, _)
RootOf(tbl, id) ==
  IF ~HasId(tbl, id) THEN id
  ELSE LET parent == RowOf(tbl, id).parent_id
       IN IF parent = NoId THEN id ELSE RootOf(tbl, parent)

ActiveIn(tbl, root) ==
  {i \in 1..Len(tbl) : tbl[i].status = "active" /\ RootOf(tbl, tbl[i].id) = root}

\* The trees that hold an active session.
BusyRoots(tbl) ==
  {RootOf(tbl, tbl[i].id) : i \in {j \in 1..Len(tbl) : tbl[j].status = "active"}}

\* Sessions this step moved from pending to active.
Activated(old, new) ==
  Cardinality({i \in 1..Len(old) : old[i].status = "pending" /\ new[i].status = "active"})

Init ==
  /\ table = << >>
  /\ events = << >>
  /\ procs = [p \in Procs |-> NoProc]
  /\ clock = 1
  /\ nextId = 1
  /\ cmds = 0

\* ------------------------------------------------------------------ wake
WakeSpecs == {ChildSpec("k0", "t0")}

\* wake.rs line 14: Session::new(ken, task, None)
WakeStart(p, spec) ==
  /\ CanStart(p)
  /\ nextId <= MaxSessions
  /\ procs' = [procs EXCEPT ![p] =
        [NoProc EXCEPT !.kind = "wake", !.pc = "w_insert",
                       !.news = << Session_new(nextId, spec.ken, spec.task, NoId, clock) >>]]
  /\ clock' = clock + 1
  /\ nextId' = nextId + 1
  /\ cmds' = cmds + 1
  /\ UNCHANGED << table, events >>

\* wake.rs line 17: storage.insert_session(&session)?
WakeInsert(p) ==
  /\ procs[p].pc = "w_insert"
  /\ LET r == insert_session(table, procs[p].news[1])
     IN /\ table' = r.tbl
        /\ procs' = [procs EXCEPT ![p] =
              IF r.ok THEN [@ EXCEPT !.pc = "w_event"]
              ELSE Done(@, ExitErr("Database"))]
  /\ UNCHANGED << events, clock, nextId, cmds >>

\* The wake that prints the id without logging session_created.
WakeEvent_NoEvent(p) ==
  /\ procs[p].pc = "w_event"
  /\ procs' = [procs EXCEPT ![p] = Done(@, ExitOk([NoOut EXCEPT !.id = procs[p].news[1].id]))]
  /\ UNCHANGED << table, events, clock, nextId, cmds >>

\* wake.rs lines 20-24: the session_created event, then the id on stdout
WakeEvent(p) ==
  /\ procs[p].pc = "w_event"
  /\ LET id == procs[p].news[1].id
     IN /\ events' = insert_event(events, Event_new("session_created", id, NoData))
        /\ procs' = [procs EXCEPT ![p] = Done(@, ExitOk([NoOut EXCEPT !.id = id]))]
  /\ UNCHANGED << table, clock, nextId, cmds >>

\* --------------------------------------------------------------- process
\* A lookup that counts an id the store does not hold as complete.
LookupComplete_UnknownCounts(tbl, id) ==
  LET r == get_session(tbl, id) IN r.ok => r.session.status = "Complete"

\* process.rs line 23: |id| storage.get_session(id).ok().map(|s| s.status),
\* matched against Some(SessionStatus::Complete)
LookupComplete(tbl, id) ==
  LET r == get_session(tbl, id) IN r.ok /\ r.session.status = "Complete"

\* Trigger::is_satisfied on one view of the store (session.rs): a timeout is
\* never satisfied here.
is_satisfied(trigger, tbl) ==
  CASE trigger.tag = "all_complete" ->
         \A k \in 1..Len(trigger.ids) : LookupComplete(tbl, trigger.ids[k])
    [] trigger.tag = "any_complete" ->
         \E k \in 1..Len(trigger.ids) : LookupComplete(tbl, trigger.ids[k])
    [] OTHER -> FALSE

\* An evaluation that never finds a trigger satisfied.
is_satisfied_step_Never(trigger, k, complete) ==
  IF k = Len(trigger.ids) THEN "no" ELSE "more"

\* Trigger::is_satisfied, one status lookup at a time (Iterator::all and
\* Iterator::any stop at the first id that decides): what the id at position
\* k of the list decides, given whether its session is complete.
\* "yes": satisfied, "no": not satisfied, "more": look up the next id.
is_satisfied_step(trigger, k, complete) ==
  CASE trigger.tag = "all_complete" ->
         IF ~complete THEN "no" ELSE IF k = Len(trigger.ids) THEN "yes" ELSE "more"
    [] trigger.tag = "any_complete" ->
         IF complete THEN "yes" ELSE IF k = Len(trigger.ids) THEN "no" ELSE "more"
    [] OTHER -> "no"

\* An evaluation that finds no trigger over an empty list satisfied.
is_satisfied_empty_No(trigger) == "no"

\* What is_satisfied decides before any lookup: an empty list.
is_satisfied_empty(trigger) ==
  CASE trigger.tag = "all_complete" -> "yes"
    [] trigger.tag = "any_complete" -> "no"
    [] OTHER -> "no"

\* Trigger::is_satisfied_with_time on a timeout: elapsed since the reference
\* time (the sleeper's updated_at) is at least n seconds.
timeout_satisfied(trigger, time, reference_time) == time - reference_time >= trigger.n

\* The wake scan's loop (process.rs lines 18-56) from sleeper idx on, up to
\* its next access to the store or the clock: [pc, idx].
RECURSIVE WakeScan(_, _)
WakeScan(sleeping, idx) ==
  IF idx > Len(sleeping) THEN [pc |-> "t_pending", idx |-> idx]
  ELSE LET session == sleeping[idx]
           trigger == from_json(session.trigger)
       IN IF session.trigger = NoText THEN WakeScan(sleeping, idx + 1)
          ELSE IF ~trigger.ok THEN [pc |-> "t_parse_error", idx |-> idx]
          ELSE IF trigger.tag = "timeout_seconds" \/ trigger.ids # << >>
               THEN [pc |-> "t_eval", idx |-> idx]
          ELSE IF is_satisfied_empty(trigger) = "yes"
               THEN [pc |-> "t_wake", idx |-> idx]
          ELSE WakeScan(sleeping, idx + 1)

AtSleeper(pr, idx) ==
  LET w == WakeScan(pr.sleeping, idx)
  IN [pr EXCEPT !.pc = w.pc, !.idx = w.idx, !.k = 1]

\* process.rs line 14: let now = Utc::now().to_rfc3339()
TickStart(p) ==
  /\ CanStart(p)
  /\ procs' = [procs EXCEPT ![p] =
        [NoProc EXCEPT !.kind = "process", !.pc = "t_sleeping", !.now = clock,
                       !.busy0 = BusyRoots(table)]]
  /\ clock' = clock + 1
  /\ cmds' = cmds + 1
  /\ UNCHANGED << table, events, nextId >>

\* process.rs line 17: get_sessions_by_status(Sleeping)
TickReadSleeping(p) ==
  /\ procs[p].pc = "t_sleeping"
  /\ procs' = [procs EXCEPT ![p] =
        AtSleeper([@ EXCEPT !.sleeping = get_sessions_by_status(table, "Sleeping")], 1)]
  /\ UNCHANGED << table, events, clock, nextId, cmds >>

\* The evaluation with the session's created_at as its reference time.
TickEval_CreatedAt(p) ==
  /\ procs[p].pc = "t_eval"
  /\ LET pr == procs[p]
         session == pr.sleeping[pr.idx]
         trigger == from_json(session.trigger)
         verdict ==
           IF trigger.tag = "timeout_seconds"
           THEN IF timeout_satisfied(trigger, clock, session.created_at) THEN "yes" ELSE "no"
           ELSE is_satisfied_step(trigger, pr.k, LookupComplete(table, trigger.ids[pr.k]))
     IN procs' = [procs EXCEPT ![p] =
          CASE verdict = "yes" -> [pr EXCEPT !.pc = "t_wake"]
            [] verdict = "more" -> [pr EXCEPT !.k = pr.k + 1]
            [] OTHER -> AtSleeper(pr, pr.idx + 1)]
  /\ UNCHANGED << table, events, clock, nextId, cmds >>

\* process.rs lines 22-25: one lookup of the trigger's evaluation
TickEval(p) ==
  /\ procs[p].pc = "t_eval"
  /\ LET pr == procs[p]
         session == pr.sleeping[pr.idx]
         trigger == from_json(session.trigger)
         verdict ==
           IF trigger.tag = "timeout_seconds"
           THEN IF timeout_satisfied(trigger, clock, session.updated_at) THEN "yes" ELSE "no"
           ELSE is_satisfied_step(trigger, pr.k, LookupComplete(table, trigger.ids[pr.k]))
     IN procs' = [procs EXCEPT ![p] =
          CASE verdict = "yes" -> [pr EXCEPT !.pc = "t_wake"]
            [] verdict = "more" -> [pr EXCEPT !.k = pr.k + 1]
            [] OTHER -> AtSleeper(pr, pr.idx + 1)]
  /\ UNCHANGED << table, events, clock, nextId, cmds >>

\* process.rs lines 29-35: try_update_session_status(id, Sleeping, Pending, now)
TickWake(p) ==
  /\ procs[p].pc = "t_wake"
  /\ LET pr == procs[p]
         session == pr.sleeping[pr.idx]
         r == try_update_session_status(table, session.id, "Sleeping", "Pending", pr.now)
     IN /\ table' = r.tbl
        /\ procs' = [procs EXCEPT ![p] =
              IF r.ok THEN [pr EXCEPT !.pc = "t_wake_event",
                                      !.woke = pr.woke \cup {session.id},
                                      !.nact = pr.nact + Activated(table, r.tbl)]
              ELSE AtSleeper(pr, pr.idx + 1)]
  /\ UNCHANGED << events, clock, nextId, cmds >>

\* The wake that logs nothing: on to the next sleeper.
TickWakeEvent_Silent(p) ==
  /\ procs[p].pc = "t_wake_event"
  /\ procs' = [procs EXCEPT ![p] = AtSleeper(@, @.idx + 1)]
  /\ UNCHANGED << table, events, clock, nextId, cmds >>

\* process.rs lines 36-41: the trigger_satisfied event
TickWakeEvent(p) ==
  /\ procs[p].pc = "t_wake_event"
  /\ LET pr == procs[p]
         session == pr.sleeping[pr.idx]
     IN /\ events' = insert_event(events,
              Event_new("trigger_satisfied", session.id, TriggerData(session.trigger)))
        /\ procs' = [procs EXCEPT ![p] = AtSleeper(pr, pr.idx + 1)]
  /\ UNCHANGED << table, clock, nextId, cmds >>

\* A parse error that ends the tick: Trigger::from_json(trigger_json)?
TickParseError_Abort(p) ==
  /\ procs[p].pc = "t_parse_error"
  /\ procs' = [procs EXCEPT ![p] = Done(@, ExitErr("Json"))]
  /\ UNCHANGED << table, events, clock, nextId, cmds >>

\* process.rs lines 45-53: the trigger_parse_error event
TickParseError(p) ==
  /\ procs[p].pc = "t_parse_error"
  /\ LET pr == procs[p]
         session == pr.sleeping[pr.idx]
     IN /\ events' = insert_event(events,
              Event_new("trigger_parse_error", session.id,
                        MsgData("Failed to parse trigger", session.trigger)))
        /\ procs' = [procs EXCEPT ![p] = AtSleeper(pr, pr.idx + 1)]
  /\ UNCHANGED << table, clock, nextId, cmds >>

\* The activation scan's loop (process.rs lines 60-94) at candidate j: the
\* next compare-and-swap, or {"action":"none"} when the candidates are used up.
AtCandidate(pr, j) ==
  IF j > Len(pr.pending) THEN Done(pr, ExitOk(ActionNone))
  ELSE [pr EXCEPT !.pc = "t_activate", !.j = j]

\* The pending list as it was before this tick's wake scan.
TickReadPending_BeforeWake(p) ==
  /\ procs[p].pc = "t_pending"
  /\ LET pr == procs[p]
         NotWoken(s) == s.id \notin pr.woke
         pending == SelectSeq(get_sessions_by_status(table, "Pending"), NotWoken)
     IN procs' = [procs EXCEPT ![p] = AtCandidate([pr EXCEPT !.pending = pending], 1)]
  /\ UNCHANGED << table, events, clock, nextId, cmds >>

\* process.rs line 59: get_sessions_by_status(Pending)
TickReadPending(p) ==
  /\ procs[p].pc = "t_pending"
  /\ procs' = [procs EXCEPT ![p] =
        AtCandidate([@ EXCEPT !.pending = get_sessions_by_status(table, "Pending")], 1)]
  /\ UNCHANGED << table, events, clock, nextId, cmds >>

\* The activation without the compare: update_session_status, always "won".
TickActivate_Unconditional(p) ==
  /\ procs[p].pc = "t_activate"
  /\ LET pr == procs[p]
         session == pr.pending[pr.j]
         new == update_session_status(table, session.id, "Active", pr.now)
     IN /\ table' = new
        /\ procs' = [procs EXCEPT ![p] =
              [pr EXCEPT !.pc = "t_activate_event",
                         !.nact = pr.nact + Activated(table, new)]]
  /\ UNCHANGED << events, clock, nextId, cmds >>

\* process.rs lines 62-69: try_update_session_status(id, Pending, Active, now)
TickActivate(p) ==
  /\ procs[p].pc = "t_activate"
  /\ LET pr == procs[p]
         session == pr.pending[pr.j]
         r == try_update_session_status(table, session.id, "Pending", "Active", pr.now)
     IN /\ table' = r.tbl
        /\ procs' = [procs EXCEPT ![p] =
              IF r.ok THEN [pr EXCEPT !.pc = "t_activate_event",
                                      !.nact = pr.nact + Activated(table, r.tbl)]
              ELSE AtCandidate(pr, pr.j + 1)]
  /\ UNCHANGED << events, clock, nextId, cmds >>

\* The activation loop without its return: on to the next candidate.
TickActivateEvent_NoReturn(p) ==
  /\ procs[p].pc = "t_activate_event"
  /\ LET pr == procs[p]
         session == pr.pending[pr.j]
     IN /\ events' = insert_event(events, Event_new("session_activated", session.id, NoData))
        /\ procs' = [procs EXCEPT ![p] = AtCandidate(pr, pr.j + 1)]
  /\ UNCHANGED << table, clock, nextId, cmds >>

\* process.rs lines 70-87: the session_activated event, the spawn instruction
TickActivateEvent(p) ==
  /\ procs[p].pc = "t_activate_event"
  /\ LET pr == procs[p]
         session == pr.pending[pr.j]
     IN /\ events' = insert_event(events, Event_new("session_activated", session.id, NoData))
        /\ procs' = [procs EXCEPT ![p] = Done(pr, ExitOk(ActionSpawn(session)))]
  /\ UNCHANGED << table, clock, nextId, cmds >>

\* --------------------------------------------------------------- request
\* The requests agents send (well-formed JSON of the three shapes).
Results == {"r1"}
Checkpoints == {"cp1"}
SleepTriggers ==
  {JObjStr("all_complete", Placeholder), JObjIds("any_complete", << >>),
   JObjNum("bogus", 0)}
SpawnTriggers == {JObjStr("all_complete", Placeholder)}
ChildLists == {<< >>, << ChildSpec("k1", "t1"), ChildSpec("k2", "t2") >>}

\* An id no session has: Uuid::new_v4 never returns it.
UnknownId == MaxSessions + 1

RequestsTo(ids) ==
  {Complete(id, r) : id \in ids, r \in Results}
  \cup {Sleep(x[1], x[2], x[3]) : x \in ids \X SleepTriggers \X Checkpoints}
  \cup {SpawnAndSleep(x[1], x[2], x[3], x[4]) :
           x \in ids \X ChildLists \X SpawnTriggers \X Checkpoints}

\* A request names a session of the store or a session that does not exist.
Requests == RequestsTo(Ids \cup {UnknownId})

\* request.rs line 20: let now = Utc::now().to_rfc3339().  The ids the
\* request's Session::new calls will mint are drawn here.
ReqStart(p, req) ==
  /\ CanStart(p)
  /\ req.session_id \in TableIds(table) \cup {UnknownId}
  /\ nextId + Len(req.children) <= MaxSessions + 1
  /\ procs' = [procs EXCEPT ![p] =
        [NoProc EXCEPT !.kind = "request", !.pc = "r_get", !.now = clock, !.req = req,
                       !.ids = [i \in 1..Len(req.children) |-> nextId + i - 1]]]
  /\ clock' = clock + 1
  /\ nextId' = nextId + Len(req.children)
  /\ cmds' = cmds + 1
  /\ UNCHANGED << table, events >>

\* The children created as roots: Session::new(ken, task, None).
ChildSessions_NoParent(req, ids, time) ==
  [i \in 1..Len(req.children) |->
     Session_new(ids[i], req.children[i].ken, req.children[i].task, NoId, time + i - 1)]

\* request.rs lines 59-62: one Session::new per child spec
ChildSessions(req, ids, time) ==
  [i \in 1..Len(req.children) |->
     Session_new(ids[i], req.children[i].ken, req.children[i].task, req.session_id,
                 time + i - 1)]

\* request.rs lines 25-32, 49-62, 84-91: get_session and the status check
ReqGet(p) ==
  /\ procs[p].pc = "r_get"
  /\ LET pr == procs[p]
         r == get_session(table, pr.req.session_id)
     IN /\ procs' = [procs EXCEPT ![p] =
              IF ~r.ok THEN Done(pr, ExitErr("SessionNotFound"))
              ELSE IF r.session.status # "Active"
              THEN Done(pr, ExitOk(ResponseNotActive(pr.req.session_id, r.session.status)))
              ELSE CASE pr.req.type = "complete" -> [pr EXCEPT !.pc = "r_complete"]
                     [] pr.req.type = "sleep" -> [pr EXCEPT !.pc = "r_sleep"]
                     [] OTHER -> [pr EXCEPT !.pc = "r_spawn",
                                            !.news = ChildSessions(pr.req, pr.ids, clock)]]
        /\ clock' = IF r.ok /\ r.session.status = "Active" /\ pr.req.type = "spawn_and_sleep"
                    THEN clock + Len(pr.req.children) ELSE clock
  /\ UNCHANGED << table, events, nextId, cmds >>

\* The completion that logs before it writes: insert_event in the place of
\* complete_session.
ReqComplete_EventFirst(p) ==
  /\ procs[p].pc = "r_complete"
  /\ events' = insert_event(events,
        Event_new("session_completed", procs[p].req.session_id,
                  StrData(procs[p].req.result)))
  /\ procs' = [procs EXCEPT ![p] = [@ EXCEPT !.pc = "r_event"]]
  /\ UNCHANGED << table, clock, nextId, cmds >>

\* request.rs line 35: storage.complete_session(&session_id, &result, &now)
ReqComplete(p) ==
  /\ procs[p].pc = "r_complete"
  /\ LET pr == procs[p]
         new == complete_session(table, pr.req.session_id, pr.req.result, pr.now)
     IN /\ table' = new
        /\ procs' = [procs EXCEPT ![p] =
              [pr EXCEPT !.pc = "r_event", !.nact = pr.nact + Activated(table, new)]]
  /\ UNCHANGED << events, clock, nextId, cmds >>

\* request.rs lines 93-96: storage.sleep_session(&session_id, &trigger_str, ...)
ReqSleep(p) ==
  /\ procs[p].pc = "r_sleep"
  /\ LET pr == procs[p]
         trigger_str == ValueToString(pr.req.trigger)
         new == sleep_session(table, pr.req.session_id, trigger_str, pr.req.checkpoint, pr.now)
     IN /\ table' = new
        /\ procs' = [procs EXCEPT ![p] =
              [pr EXCEPT !.pc = "r_event", !.nact = pr.nact + Activated(table, new)]]
  /\ UNCHANGED << events, clock, nextId, cmds >>

\* request.rs lines 38-44 and 99-105: the event, then the success response
ReqEvent(p) ==
  /\ procs[p].pc = "r_event"
  /\ LET pr == procs[p]
         event == IF pr.req.type = "complete"
                  THEN Event_new("session_completed", pr.req.session_id,
                                 StrData(pr.req.result))
                  ELSE Event_new("session_sleeping", pr.req.session_id,
                                 JsonData(ValueToString(pr.req.trigger)))
     IN /\ events' = insert_event(events, event)
        /\ procs' = [procs EXCEPT ![p] = Done(pr, ExitOk(ResponseSuccess(NoResponseData)))]
  /\ UNCHANGED << table, clock, nextId, cmds >>

\* request.rs lines 65-79: resolve_trigger, then the composite; a statement
\* of the transaction may fail with a database error.
ReqSpawn(p, failAt) ==
  /\ procs[p].pc = "r_spawn"
  /\ LET pr == procs[p]
         child_ids == ChildIds(pr.news)
         trigger_str == resolve_trigger(pr.req.trigger, child_ids)
         r == spawn_and_sleep(table, events, pr.req.session_id, pr.news, trigger_str,
                              pr.req.checkpoint, pr.now, failAt)
     IN /\ failAt \in 0..(Len(pr.news) + 2)
        /\ table' = r.tbl
        /\ events' = r.evs
        /\ procs' = [procs EXCEPT ![p] =
              IF r.ok
              THEN Done([pr EXCEPT !.nact = pr.nact + Activated(table, r.tbl)],
                        ExitOk(ResponseSuccess(ChildrenData(r.ids))))
              ELSE Done(pr, ExitErr("Database"))]
  /\ UNCHANGED << clock, nextId, cmds >>

\* ------------------------------------------------------- specifications
\* The steps of a command that is running in slot p.
Step(p) ==
  \/ WakeInsert(p)
  \/ WakeEvent(p)
  \/ TickReadSleeping(p)
  \/ TickEval(p)
  \/ TickWake(p)
  \/ TickWakeEvent(p)
  \/ TickParseError(p)
  \/ TickReadPending(p)
  \/ TickActivate(p)
  \/ TickActivateEvent(p)
  \/ ReqGet(p)
  \/ ReqComplete(p)
  \/ ReqSleep(p)
  \/ ReqEvent(p)
  \/ \E failAt \in 0..(MaxSessions + 2) : ReqSpawn(p, failAt)

\* Commands start at any time and their statements interleave.
Next ==
  \E p \in Procs :
    \/ cmds < MaxCmds /\ \E spec \in WakeSpecs : WakeStart(p, spec)
    \/ cmds < MaxCmds /\ TickStart(p)
    \/ cmds < MaxCmds /\ \E req \in Requests : ReqStart(p, req)
    \/ Step(p)

Spec == Init /\ [][Next]_vars

\* The driver serializes calls: a command starts only when none is running.
Quiet == \A q \in Procs : Free(q)

NextSerial ==
  \E p \in Procs :
    \/ Quiet /\ cmds < MaxSerialCmds /\ \E spec \in WakeSpecs : WakeStart(p, spec)
    \/ Quiet /\ cmds < MaxSerialCmds /\ TickStart(p)
    \/ Quiet /\ cmds < MaxSerialCmds /\ \E req \in Requests : ReqStart(p, req)
    \/ Step(p)

SpecSerial == Init /\ [][NextSerial]_vars

\* Serialized commands whose sleep requests also wait on timeouts.
TimedSleeps ==
  {Sleep(x[1], x[2], x[3]) :
     x \in (Ids \cup {UnknownId})
            \X {JObjNum("timeout_seconds", 0), JObjNum("timeout_seconds", LongTimeout)}
            \X Checkpoints}

NextTimed ==
  \E p \in Procs :
    \/ Quiet /\ cmds < MaxSerialCmds /\ \E spec \in WakeSpecs : WakeStart(p, spec)
    \/ Quiet /\ cmds < MaxSerialCmds /\ TickStart(p)
    \/ Quiet /\ cmds < MaxSerialCmds
             /\ \E req \in Requests \cup TimedSleeps : ReqStart(p, req)
    \/ Step(p)

SpecTimed == Init /\ [][NextTimed]_vars

\* The out-of-band administrative action: an operator marks a session failed
\* in the store (once), at any moment, also while a command is running.
AdminFail(id) ==
  /\ HasId(table, id)
  /\ \A i \in 1..Len(table) : table[i].status # "failed"
  /\ table' = [i \in 1..Len(table) |->
                 IF table[i].id = id THEN [table[i] EXCEPT !.status = as_str("Failed")]
                 ELSE table[i]]
  /\ UNCHANGED << events, procs, clock, nextId, cmds >>

NextAdmin ==
  \/ \E p \in Procs :
       \/ Quiet /\ cmds < MaxCmds /\ \E spec \in WakeSpecs : WakeStart(p, spec)
       \/ Quiet /\ cmds < MaxCmds /\ TickStart(p)
       \/ Quiet /\ cmds < MaxCmds /\ \E req \in Requests : ReqStart(p, req)
       \/ Step(p)
  \/ \E id \in Ids : AdminFail(id)

SpecAdmin == Init /\ [][NextAdmin]_vars

\* A command is killed (or the machine fails) at any point of its run: the
\* statements it has executed stay in the store, the rest never run.
Crash(p) ==
  /\ ~Free(p)
  /\ procs' = [procs EXCEPT ![p] = Done(@, ExitErr("Killed"))]
  /\ UNCHANGED << table, events, clock, nextId, cmds >>

\* Serialized commands, any of which may be killed while it runs.
NextCrash ==
  \E p \in Procs :
    \/ Quiet /\ cmds < MaxCmds /\ \E spec \in WakeSpecs : WakeStart(p, spec)
    \/ Quiet /\ cmds < MaxCmds /\ TickStart(p)
    \/ Quiet /\ cmds < MaxCmds /\ \E req \in Requests : ReqStart(p, req)
    \/ Step(p)
    \/ Crash(p)

SpecCrash == Init /\ [][NextCrash]_vars

\* Callers of the compare-and-swap: the store holds two sessions in any
\* status, and a caller names a session (or an id no session has), an
\* expected status and a new status, one call after the other.
MaxCalls == 3
Variants == {from_str(s) : s \in Statuses}

CasTables ==
  {<< [ToRow(Session_new(1, "k0", "t0", NoId, 1)) EXCEPT !.status = x[1]],
      [ToRow(Session_new(2, "k0", "t0", NoId, 2)) EXCEPT !.status = x[2]] >> :
     x \in Statuses \X Statuses}

InitCas ==
  /\ table \in CasTables
  /\ events = << >>
  /\ procs = [p \in Procs |-> NoProc]
  /\ clock = 3
  /\ nextId = 3
  /\ cmds = 0

\* The arguments of a call, kept with its result.
CasArgs(id, expected, new) ==
  [NoRequest EXCEPT !.type = "try_update_session_status", !.session_id = id,
                    !.result = expected, !.checkpoint = new]

CasCall(id, expected, new) ==
  /\ cmds < MaxCalls
  /\ LET r == try_update_session_status(table, id, expected, new, clock)
     IN /\ table' = r.tbl
        /\ procs' = [procs EXCEPT ![1] =
              [NoProc EXCEPT !.kind = "cas", !.pc = "done", !.now = clock,
                             !.req = CasArgs(id, expected, new),
                             !.out = [NoOut EXCEPT !.exit = "ok",
                                        !.resp = IF r.ok THEN "true" ELSE "false"]]]
  /\ clock' = clock + 1
  /\ cmds' = cmds + 1
  /\ UNCHANGED << events, nextId >>

NextCas ==
  \E id \in {1, 2, UnknownId} : \E expected \in Variants : \E new \in Variants :
    CasCall(id, expected, new)

SpecCas == InitCas /\ [][NextCas]_vars

\* Evaluations of a trigger: the store holds two sessions in any status and
\* a sleeping session whose trigger names sessions of the store and ids no
\* session has, and one tick evaluates it.
MaxEvalTicks == 1
MaxTriggerIds == 2

EvalIdLists ==
  UNION {[1..n -> {1, 2, UnknownId}] : n \in 0..MaxTriggerIds}

EvalTriggers ==
  {ValueToString(JObjIds(x[1], x[2])) :
     x \in {"all_complete", "any_complete"} \X EvalIdLists}

\* A session as the commands leave it in the given status.
EvalSession(id, status) ==
  [ToRow(Session_new(id, "k0", "t0", NoId, id)) EXCEPT
     !.status = status,
     !.trigger = IF status = "sleeping"
                 THEN ValueToString(JObjIds("any_complete", << >>)) ELSE NoText,
     !.checkpoint = IF status = "sleeping" THEN "cp1" ELSE Null,
     !.result = IF status = "complete" THEN "r1" ELSE Null]

InitEval ==
  /\ \E x \in Statuses \X Statuses \X EvalTriggers :
       table = << EvalSession(1, x[1]), EvalSession(2, x[2]),
                  [EvalSession(3, "sleeping") EXCEPT !.trigger = x[3]] >>
  /\ events = << >>
  /\ procs = [p \in Procs |-> NoProc]
  /\ clock = 4
  /\ nextId = 4
  /\ cmds = 0

NextEval ==
  \E p \in Procs :
    \/ Quiet /\ cmds < MaxEvalTicks /\ TickStart(p)
    \/ TickReadSleeping(p)
    \/ TickEval(p)
    \/ TickWake(p)
    \/ TickWakeEvent(p)
    \/ TickReadPending(p)
    \/ TickActivate(p)
    \/ TickActivateEvent(p)

SpecEval == InitEval /\ [][NextEval]_vars

\* has_work on one view of the store that counts pending and active only.
has_work_NoSleeping(tbl) ==
  \/ get_sessions_by_status(tbl, "Pending") # << >>
  \/ get_sessions_by_status(tbl, "Active") # << >>

\* process.rs lines 98-104, has_work_with_storage on one view of the store
has_work(tbl) ==
  \/ get_sessions_by_status(tbl, "Pending") # << >>
  \/ get_sessions_by_status(tbl, "Active") # << >>
  \/ get_sessions_by_status(tbl, "Sleeping") # << >>

\* has_work_with_storage, statement by statement: the three reads (the
\* active list is kept in news), then the result.
HasWorkStart(p) ==
  /\ CanStart(p)
  /\ procs' = [procs EXCEPT ![p] = [NoProc EXCEPT !.kind = "has_work", !.pc = "h_pending"]]
  /\ cmds' = cmds + 1
  /\ UNCHANGED << table, events, clock, nextId >>

HasWorkReadPending(p) ==
  /\ procs[p].pc = "h_pending"
  /\ procs' = [procs EXCEPT ![p] =
        [@ EXCEPT !.pc = "h_active",
                  !.pending = get_sessions_by_status(table, "Pending")]]
  /\ UNCHANGED << table, events, clock, nextId, cmds >>

HasWorkReadActive(p) ==
  /\ procs[p].pc = "h_active"
  /\ procs' = [procs EXCEPT ![p] =
        [@ EXCEPT !.pc = "h_sleeping",
                  !.news = get_sessions_by_status(table, "Active")]]
  /\ UNCHANGED << table, events, clock, nextId, cmds >>

HasWorkReadSleeping(p) ==
  /\ procs[p].pc = "h_sleeping"
  /\ LET pr == procs[p]
         sleeping == get_sessions_by_status(table, "Sleeping")
         work == pr.pending # << >> \/ pr.news # << >> \/ sleeping # << >>
     IN procs' = [procs EXCEPT ![p] =
          Done(pr, ExitOk([NoOut EXCEPT !.resp = IF work THEN "true" ELSE "false"]))]
  /\ UNCHANGED << table, events, clock, nextId, cmds >>

\* Serialized commands and calls of has_work.
NextWork ==
  \E p \in Procs :
    \/ Quiet /\ cmds < MaxSerialCmds /\ \E spec \in WakeSpecs : WakeStart(p, spec)
    \/ Quiet /\ cmds < MaxSerialCmds /\ TickStart(p)
    \/ Quiet /\ cmds < MaxSerialCmds /\ \E req \in Requests : ReqStart(p, req)
    \/ Quiet /\ cmds < MaxSerialCmds /\ HasWorkStart(p)
    \/ Step(p)
    \/ HasWorkReadPending(p)
    \/ HasWorkReadActive(p)
    \/ HasWorkReadSleeping(p)

SpecWork == Init /\ [][NextWork]_vars

\* The driver of a workflow: process is invoked again and again, one call at
\* a time (a call that printed {"action":"none"} is repeated only after
\* another command has run: on an unchanged store it would print the same),
\* and the agent handed a session answers with complete or with a
\* spawn_and_sleep over __CHILDREN__.
LiveChildLists ==
  {<< ChildSpec("k1", "t1") >>, << ChildSpec("k1", "t1"), ChildSpec("k2", "t2") >>}

AgentRequests(id) ==
  {Complete(id, r) : r \in Results}
  \cup {SpawnAndSleep(id, x[1], x[2], x[3]) :
           x \in LiveChildLists \X SpawnTriggers \X Checkpoints}

LastTickIdle ==
  \E q \in Procs :
    procs[q].kind = "process" /\ procs[q].pc = "done" /\ procs[q].out.action = "none"

DriverTick(p) == Quiet /\ ~LastTickIdle /\ TickStart(p)

AgentAnswer(p) ==
  /\ Quiet
  /\ \E i \in 1..Len(table) :
       /\ table[i].status = "active"
       /\ \E req \in AgentRequests(table[i].id) : ReqStart(p, req)

\* The statements of the running command; no statement fails.
StepLive(p) ==
  \/ WakeInsert(p)
  \/ WakeEvent(p)
  \/ TickReadSleeping(p)
  \/ TickEval(p)
  \/ TickWake(p)
  \/ TickWakeEvent(p)
  \/ TickReadPending(p)
  \/ TickActivate(p)
  \/ TickActivateEvent(p)
  \/ ReqGet(p)
  \/ ReqComplete(p)
  \/ ReqEvent(p)
  \/ ReqSpawn(p, 0)

NextLive ==
  \E p \in Procs :
    \/ Quiet /\ \E spec \in WakeSpecs : WakeStart(p, spec)
    \/ DriverTick(p)
    \/ AgentAnswer(p)
    \/ StepLive(p)

\* The driver keeps calling process, agents answer, commands run to their end.
SpecLive ==
  /\ Init
  /\ [][NextLive]_vars
  /\ WF_vars(\E p \in Procs : DriverTick(p))
  /\ WF_vars(\E p \in Procs : AgentAnswer(p))
  /\ WF_vars(\E p \in Procs : StepLive(p))

\* ----------------------------------------------------------------- claims
StatusOf(tbl, id) == RowOf(tbl, id).status

LegalChanges ==
  {<< "pending", "active" >>, << "active", "complete" >>,
   << "active", "sleeping" >>, << "sleeping", "pending" >>}

\* C1: every change of a session's status, in every step of every
\* interleaving of wake, process and request commands, is one of
\* pending->active, active->complete, active->sleeping, sleeping->pending.
C1_OnlyLegalChanges ==
  [][\A i \in 1..Len(table) :
       table'[i].status # table[i].status
         => << table[i].status, table'[i].status >> \in LegalChanges]_vars

\* C2: a request is applied atomically with its check: the step in which a
\* request writes to the store finds the session it names active, so of two
\* concurrent requests to one active session only one is applied.
C2_RequestAppliedOnlyToActive ==
  [][\A p \in Procs :
       (procs[p].pc \in {"r_complete", "r_sleep", "r_spawn"} /\ table' # table
        /\ procs'[p] # procs[p])
         => StatusOf(table, procs[p].req.session_id) = "active"]_vars

\* The session the tick of slot p is about to activate.
Candidate(p) == procs[p].pending[procs[p].j].id

OneActivePerTree(tbl) ==
  \A i \in 1..Len(tbl) : Cardinality(ActiveIn(tbl, RootOf(tbl, tbl[i].id))) <= 1

\* C4 as stated: with serialized commands, every workflow tree holds at most
\* one active session in every reachable state.
C4_OneActivePerTree == OneActivePerTree(table)

\* C4 amended: with serialized commands, a process invocation leaves at most
\* one active session in every workflow tree that held no active session
\* when the invocation started.
C4_OneActivePerIdleTree ==
  \A p \in Procs :
    procs[p].kind = "process" =>
      \A i \in 1..Len(table) :
        LET root == RootOf(table, table[i].id)
        IN root \notin procs[p].busy0 => Cardinality(ActiveIn(table, root)) <= 1

\* A tick that started on a tree with no active session and two pending
\* ones has activated one of them and returned; the other is still pending.
C4_Witness ==
  \E p \in Procs :
    /\ procs[p].kind = "process"
    /\ procs[p].pc = "done"
    /\ procs[p].out.action = "spawn"
    /\ \E i, j \in 1..Len(table) :
         /\ table[i].status = "active"
         /\ table[j].status = "pending"
         /\ RootOf(table, table[i].id) = RootOf(table, table[j].id)
         /\ RootOf(table, table[i].id) \notin procs[p].busy0

\* C5: one process invocation moves at most one session from pending to
\* active, however many are pending or are woken by its own wake scan.
C5_AtMostOneActivation ==
  \A p \in Procs : procs[p].kind = "process" => procs[p].nact <= 1

\* A tick with at least two candidates has activated one.
C5_Witness ==
  \E p \in Procs :
    /\ procs[p].kind = "process"
    /\ procs[p].pc = "t_activate_event"
    /\ Len(procs[p].pending) >= 2
    /\ procs[p].nact = 1

\* C6: a spawn_and_sleep that succeeds on an active parent p with child
\* specs C leaves p sleeping with the given checkpoint, adds exactly one new
\* pending session per spec of C, in order, with parent_id = p.id and the
\* spec's ken and task, and changes no other session that existed before.
C6_SpawnAndSleepEffect ==
  [][\A p \in Procs :
       (/\ procs[p].pc = "r_spawn"
        /\ procs'[p].out.resp = "ok"
        /\ StatusOf(table, procs[p].req.session_id) = "active") =>
         LET pr == procs[p]
             id == pr.req.session_id
             specs == pr.req.children
             n == Len(specs)
             m == Len(table)
         IN /\ Len(table') = m + n
            /\ \A i \in 1..m :
                 IF table[i].id = id
                 THEN /\ table'[i].status = "sleeping"
                      /\ table'[i].checkpoint = pr.req.checkpoint
                      /\ table'[i].id = id
                      /\ table'[i].ken = table[i].ken
                      /\ table'[i].task = table[i].task
                      /\ table'[i].parent_id = table[i].parent_id
                      /\ table'[i].result = table[i].result
                 ELSE table'[i] = table[i]
            /\ \A i \in 1..n :
                 /\ table'[m + i].status = "pending"
                 /\ table'[m + i].parent_id = id
                 /\ table'[m + i].ken = specs[i].ken
                 /\ table'[m + i].task = specs[i].task
                 /\ table'[m + i].id \notin TableIds(table)
                 /\ \A j \in 1..n : table'[m + j].id = table'[m + i].id => j = i]_vars

\* A spawn_and_sleep with two child specs has answered ok: the two children
\* are pending under the parent it put to sleep.
C6_Witness ==
  \E p \in Procs :
    /\ procs[p].kind = "request"
    /\ procs[p].pc = "done"
    /\ procs[p].out.resp = "ok"
    /\ Len(procs[p].out.children) = 2
    /\ \A i \in 1..2 :
         /\ HasId(table, procs[p].out.children[i])
         /\ StatusOf(table, procs[p].out.children[i]) = "pending"
         /\ HasId(table, RowOf(table, procs[p].out.children[i]).parent_id)
         /\ StatusOf(table, RowOf(table, procs[p].out.children[i]).parent_id) = "sleeping"

\* The rows a step added to the sessions table.
NewRows == SubSeq(table', Len(table) + 1, Len(table'))

\* C7: spawn_and_sleep's composite (the child inserts, the parent's move to
\* sleeping, the children_spawned event) is all-or-none: a step that shows the
\* store any of the three shows all three, and a composite that fails part-way
\* leaves the sessions and the events as they were.
C7_SpawnAndSleepAllOrNone ==
  [][\A p \in Procs :
       (procs[p].pc = "r_spawn" /\ procs'[p] # procs[p]) =>
         LET pr == procs[p]
             id == pr.req.session_id
             n == Len(pr.req.children)
             some == \/ Len(table') > Len(table)
                     \/ \E i \in 1..Len(table) : table'[i] # table[i]
                     \/ events' # events
             all == /\ Len(table') = Len(table) + n
                    /\ \A i \in 1..n : NewRows[i].parent_id = id
                    /\ StatusOf(table', id) = "sleeping"
                    /\ RowOf(table', id).checkpoint = pr.req.checkpoint
                    /\ events' = Append(events,
                          Event_new("children_spawned", id,
                                    JsonData(IdsToJson(ChildIds(NewRows)))))
         IN /\ some => all
            /\ procs'[p].out.resp = "ok" <=> some
            /\ procs'[p].out.exit = "err" => table' = table /\ events' = events]_vars

\* A spawn_and_sleep has failed with a database error and no child, no
\* sleeping parent and no children_spawned event is in the store.
C7_Witness ==
  \E p \in Procs :
    /\ procs[p].kind = "request"
    /\ procs[p].pc = "done"
    /\ procs[p].out.error = "Database"
    /\ \A i \in 1..Len(table) : table[i].parent_id = NoId /\ table[i].status # "sleeping"
    /\ \A k \in 1..Len(events) : events[k].event_type # "children_spawned"

\* C8: a complete, sleep or spawn_and_sleep naming an existing session whose
\* status is not active is answered {ok:false, error:"Session <id> is not
\* active (status: <s>)"} with <s> the status of the session, and leaves the
\* sessions and the events unchanged.
C8_NotActiveRejected ==
  [][\A p \in Procs :
       (/\ procs[p].pc = "r_get"
        /\ procs'[p] # procs[p]
        /\ HasId(table, procs[p].req.session_id)
        /\ StatusOf(table, procs[p].req.session_id) # "active") =>
         /\ procs'[p].pc = "done"
         /\ procs'[p].out.exit = "ok"
         /\ procs'[p].out.resp = "not active"
         /\ procs'[p].out.id = procs[p].req.session_id
         /\ procs'[p].out.err_status = StatusOf(table, procs[p].req.session_id)
         /\ table' = table
         /\ events' = events]_vars

\* A request to a sleeping session was answered "not active (status:
\* sleeping)".
C8_Witness ==
  \E p \in Procs :
    /\ procs[p].kind = "request"
    /\ procs[p].pc = "done"
    /\ procs[p].out.resp = "not active"
    /\ procs[p].out.err_status = "sleeping"
    /\ StatusOf(table, procs[p].out.id) = "sleeping"

\* C9: a request naming a session that does not exist does not abort the
\* command: it is answered with an ok=false response and the store is
\* unchanged.
C9_UnknownSessionAnswered ==
  [][\A p \in Procs :
       (/\ procs[p].pc = "r_get"
        /\ procs'[p] # procs[p]
        /\ ~HasId(table, procs[p].req.session_id)) =>
         /\ procs'[p].pc = "done"
         /\ procs'[p].out.exit = "ok"
         /\ procs'[p].out.resp \notin {"", "ok"}
         /\ table' = table
         /\ events' = events]_vars

\* The trigger stored on a row is satisfied on the store as it is now.
StoredTriggerSatisfied(tbl, row, time) ==
  LET trigger == from_json(row.trigger)
  IN /\ row.trigger # NoText
     /\ trigger.ok
     /\ IF trigger.tag = "timeout_seconds"
        THEN timeout_satisfied(trigger, time, row.updated_at)
        ELSE is_satisfied(trigger, tbl)

\* C10: in every interleaving, a session goes from sleeping to pending only
\* in a step at which the trigger stored on it is satisfied; a sleeper whose
\* trigger is not satisfied stays sleeping.
C10_WokenOnlyWhenSatisfied ==
  [][\A i \in 1..Len(table) :
       (table[i].status = "sleeping" /\ table'[i].status = "pending")
         => StoredTriggerSatisfied(table, table[i], clock)]_vars

\* C11: with serialized commands, a tick whose wake scan woke a session
\* activates exactly one session and prints a spawn instruction for it, never
\* {"action":"none"}; when the woken session was the only pending one, it is
\* the session activated and it is active when the tick returns.
C11_WokenThenActivated ==
  \A p \in Procs :
    (procs[p].kind = "process" /\ procs[p].pc = "done" /\ procs[p].woke # {}) =>
      /\ procs[p].out.exit = "ok"
      /\ procs[p].out.action = "spawn"
      /\ procs[p].nact = 1
      /\ StatusOf(table, procs[p].out.id) = "active"
      /\ (Cardinality(procs[p].woke) = 1
          /\ \A i \in 1..Len(table) : table[i].status # "pending")
           => procs[p].out.id \in procs[p].woke

\* A tick woke the only sleeper, found it the only pending session and
\* activated it.
C11_Witness ==
  \E p \in Procs :
    /\ procs[p].kind = "process"
    /\ procs[p].pc = "done"
    /\ procs[p].woke = {procs[p].out.id}
    /\ procs[p].out.action = "spawn"
    /\ StatusOf(table, procs[p].out.id) = "active"
    /\ \A i \in 1..Len(table) : table[i].status # "pending"

\* Every session is complete and the last process call printed action none.
Idle ==
  /\ Quiet
  /\ LastTickIdle
  /\ \A i \in 1..Len(table) : table[i].status = "complete"

\* C12: when the driver keeps invoking process one call at a time and every
\* agent handed a session answers with complete or (boundedly often) with a
\* spawn_and_sleep on all_complete over __CHILDREN__, every session
\* eventually is complete and the tick eventually prints action none.
C12_ForwardProgress ==
  /\ \A id \in Ids :
       HasId(table, id) ~> (HasId(table, id) /\ StatusOf(table, id) = "complete")
  /\ []<>Idle

\* A workflow with spawned children has run to its end: every session of a
\* full store is complete and the tick has printed action none.
C12_Witness ==
  /\ Idle
  /\ Len(table) = MaxSessions
  /\ \E i \in 1..Len(table) : table[i].parent_id # NoId

\* The seconds a row's trigger waits for, -1 when it is no timeout.
TimeoutOf(row) ==
  LET trigger == from_json(row.trigger)
  IN IF row.trigger # NoText /\ trigger.ok /\ trigger.tag = "timeout_seconds"
     THEN trigger.n ELSE -1

AtScan(p) == procs[p].pc \in {"t_eval", "t_wake", "t_wake_event", "t_parse_error"}
Sleeper(p) == procs[p].sleeping[procs[p].idx]

\* C14: a stored trigger that still holds the __CHILDREN__ placeholder when
\* the tick evaluates it is a parse error: the tick logs trigger_parse_error
\* for the session and neither evaluates nor wakes it.
C14_PlaceholderIsParseError ==
  \A p \in Procs :
    (AtScan(p) /\ ContainsStr(Sleeper(p).trigger, Placeholder))
      => procs[p].pc = "t_parse_error"

\* C15: when a sleeper's stored trigger fails to parse, the tick appends one
\* trigger_parse_error event for that session and changes no session, goes on
\* with the remaining sleepers (the next one that needs the store, a wake or
\* another parse error) and then with the activation scan, and does not fail;
\* a trigger that does not parse is never evaluated and its session never
\* woken.
C15_ParseErrorSkipped ==
  /\ [](\A p \in Procs :
          (AtScan(p) /\ procs[p].pc # "t_parse_error")
            => from_json(Sleeper(p).trigger).ok)
  /\ [][\A p \in Procs :
          (procs[p].pc = "t_parse_error" /\ procs'[p] # procs[p]) =>
            LET pr == procs[p]
                nx == procs'[p]
            IN /\ Len(events') = Len(events) + 1
               /\ SubSeq(events', 1, Len(events)) = events
               /\ events'[Len(events')].event_type = "trigger_parse_error"
               /\ events'[Len(events')].session_id = Sleeper(p).id
               /\ table' = table
               /\ StatusOf(table', Sleeper(p).id) = "sleeping"
               /\ nx.out.exit = ""
               /\ nx.sleeping = pr.sleeping
               /\ nx.idx > pr.idx
               /\ IF nx.idx > Len(pr.sleeping) THEN nx.pc = "t_pending"
                  ELSE nx.pc \in {"t_eval", "t_wake", "t_parse_error"}
               /\ \A k \in (pr.idx + 1)..(nx.idx - 1) :
                    \/ pr.sleeping[k].trigger = NoText
                    \/ from_json(pr.sleeping[k].trigger) = AnyComplete(<< >>)]_vars

\* The first of two sleepers has a trigger that does not parse: the tick has
\* logged the parse error, left the session sleeping and is at the second
\* sleeper.
C15_Witness ==
  \E p \in Procs :
    /\ procs[p].pc \in {"t_eval", "t_wake", "t_parse_error"}
    /\ procs[p].idx = 2
    /\ procs[p].sleeping[1].trigger # NoText
    /\ ~from_json(procs[p].sleeping[1].trigger).ok
    /\ events # << >>
    /\ events[Len(events)].event_type = "trigger_parse_error"
    /\ events[Len(events)].session_id = procs[p].sleeping[1].id
    /\ StatusOf(table, procs[p].sleeping[1].id) = "sleeping"

\* C16: in every reachable state of every interleaving of wake, process and
\* request commands, a session's result is non-null iff its status is
\* complete or failed.
C16_ResultIffTerminal ==
  \A i \in 1..Len(table) :
    table[i].result # Null <=> table[i].status \in {"complete", "failed"}

\* C17: no wake, process or request command sets a session's status to
\* failed (only the out-of-band action does, and it moves no command), and no
\* step changes a session that is failed.
C17_FailedUntouched ==
  [][\A i \in 1..Len(table) :
       /\ (table'[i].status = "failed" /\ table[i].status # "failed") => procs' = procs
       /\ table[i].status = "failed" => table'[i] = table[i]]_vars

\* C18: in every reachable state every session with a non-null parent_id
\* names a parent that is in the store, and the session a wake command
\* inserts has a null parent_id.
C18_ParentsExist ==
  /\ [](\A i \in 1..Len(table) :
          table[i].parent_id # NoId => HasId(table, table[i].parent_id))
  /\ [][\A p \in Procs :
          (procs[p].pc = "w_insert" /\ procs'[p].pc = "w_event") =>
            /\ Len(table') = Len(table) + 1
            /\ table'[Len(table')].parent_id = NoId]_vars

\* The store holds a root created by wake and a child that names it.
C18_Witness ==
  \E i, j \in 1..Len(table) :
    /\ table[i].parent_id = NoId
    /\ table[j].parent_id = table[i].id

\* The columns of a row that no request rewrites.
Identity(row) ==
  << row.id, row.ken, row.task, row.parent_id, row.created_at >>

\* C19: a complete request on an active session sets the session's status
\* to complete and its result to the request's result and changes no other
\* session, then appends one session_completed event whose data is that
\* result and answers {ok:true} without data.
C19_CompleteEffect ==
  [][\A p \in Procs :
       LET pr == procs[p]
           id == pr.req.session_id
       IN /\ (pr.pc = "r_complete" /\ procs'[p] # pr /\ StatusOf(table, id) = "active") =>
               /\ Len(table') = Len(table)
               /\ \A i \in 1..Len(table) :
                    IF table[i].id = id
                    THEN /\ table'[i].status = "complete"
                         /\ table'[i].result = pr.req.result
                         /\ Identity(table'[i]) = Identity(table[i])
                         /\ table'[i].trigger = table[i].trigger
                         /\ table'[i].checkpoint = table[i].checkpoint
                    ELSE table'[i] = table[i]
               /\ events' = events
               /\ procs'[p].pc = "r_event"
          /\ (pr.pc = "r_event" /\ pr.req.type = "complete" /\ procs'[p] # pr) =>
               /\ events' = Append(events,
                     [event_type |-> "session_completed", session_id |-> id,
                      data |-> StrData(pr.req.result)])
               /\ table' = table
               /\ procs'[p].pc = "done"
               /\ procs'[p].out.exit = "ok"
               /\ procs'[p].out.resp = "ok"
               /\ procs'[p].out.data = ""
               /\ procs'[p].out.children = << >>]_vars

\* A complete request has answered ok: its session is complete with the
\* result r1 and the log ends with its session_completed event.
C19_Witness ==
  \E p \in Procs :
    /\ procs[p].kind = "request"
    /\ procs[p].pc = "done"
    /\ procs[p].out.resp = "ok"
    /\ events # << >>
    /\ events[Len(events)].event_type = "session_completed"
    /\ events[Len(events)].data = StrData("r1")
    /\ HasId(table, events[Len(events)].session_id)
    /\ StatusOf(table, events[Len(events)].session_id) = "complete"
    /\ RowOf(table, events[Len(events)].session_id).result = "r1"

\* C20: a sleep request on an active session sets the session's status to
\* sleeping and stores the serialized trigger and the checkpoint on it,
\* creates no session and changes no other one, then appends one
\* session_sleeping event that carries the trigger JSON and answers
\* {ok:true}.
C20_SleepEffect ==
  [][\A p \in Procs :
       LET pr == procs[p]
           id == pr.req.session_id
       IN /\ (pr.pc = "r_sleep" /\ procs'[p] # pr /\ StatusOf(table, id) = "active") =>
               /\ Len(table') = Len(table)
               /\ \A i \in 1..Len(table) :
                    IF table[i].id = id
                    THEN /\ table'[i].status = "sleeping"
                         /\ table'[i].trigger = ValueToString(pr.req.trigger)
                         /\ table'[i].checkpoint = pr.req.checkpoint
                         /\ Identity(table'[i]) = Identity(table[i])
                         /\ table'[i].result = table[i].result
                    ELSE table'[i] = table[i]
               /\ events' = events
               /\ procs'[p].pc = "r_event"
          /\ (pr.pc = "r_event" /\ pr.req.type = "sleep" /\ procs'[p] # pr) =>
               /\ events' = Append(events,
                     [event_type |-> "session_sleeping", session_id |-> id,
                      data |-> JsonData(ValueToString(pr.req.trigger))])
               /\ table' = table
               /\ procs'[p].pc = "done"
               /\ procs'[p].out.exit = "ok"
               /\ procs'[p].out.resp = "ok"]_vars

\* A sleep request has answered ok: its session is sleeping with the
\* checkpoint and the trigger JSON that its session_sleeping event carries.
C20_Witness ==
  \E p \in Procs :
    /\ procs[p].kind = "request"
    /\ procs[p].pc = "done"
    /\ procs[p].out.resp = "ok"
    /\ events # << >>
    /\ events[Len(events)].event_type = "session_sleeping"
    /\ HasId(table, events[Len(events)].session_id)
    /\ StatusOf(table, events[Len(events)].session_id) = "sleeping"
    /\ RowOf(table, events[Len(events)].session_id).checkpoint = "cp1"
    /\ JsonData(RowOf(table, events[Len(events)].session_id).trigger)
         = events[Len(events)].data

\* C21: a spawn_and_sleep that succeeds with the trigger
\* {"all_complete":"__CHILDREN__"} stores on the parent the trigger
\* all_complete over exactly the ids of the sessions this request inserted,
\* in child-spec order, with no __CHILDREN__ token left in the text; the same
\* id list is the response's data.children and the data of the
\* children_spawned event the request appends.
C21_PlaceholderResolved ==
  [][\A p \in Procs :
       (/\ procs[p].pc = "r_spawn"
        /\ procs'[p].out.resp = "ok"
        /\ procs[p].req.trigger = JObjStr("all_complete", Placeholder)) =>
         LET id == procs[p].req.session_id
             stored == RowOf(table', id).trigger
             new_ids == ChildIds(NewRows)
         IN /\ Len(new_ids) = Len(procs[p].req.children)
            /\ \A i \in 1..Len(new_ids) :
                 /\ NewRows[i].ken = procs[p].req.children[i].ken
                 /\ NewRows[i].task = procs[p].req.children[i].task
            /\ SerdeTrigger(stored) = AllComplete(new_ids)
            /\ ~ContainsStr(stored, Placeholder)
            /\ procs'[p].out.data = "children"
            /\ procs'[p].out.children = new_ids
            /\ Len(events') = Len(events) + 1
            /\ events'[Len(events')] =
                 Event_new("children_spawned", id, JsonData(IdsToJson(new_ids)))]_vars

\* A spawn_and_sleep with two child specs and the placeholder trigger has
\* answered ok, and the parent's stored trigger names the two children.
C21_Witness ==
  \E p \in Procs :
    /\ procs[p].kind = "request"
    /\ procs[p].pc = "done"
    /\ procs[p].out.resp = "ok"
    /\ Len(procs[p].out.children) = 2
    /\ \E i \in 1..Len(table) :
         /\ table[i].status = "sleeping"
         /\ SerdeTrigger(table[i].trigger) = AllComplete(procs[p].out.children)
         /\ \A k \in 1..2 : RowOf(table, procs[p].out.children[k]).parent_id = table[i].id
    /\ events[Len(events)].event_type = "children_spawned"
    /\ events[Len(events)].data = JsonData(IdsToJson(procs[p].out.children))

\* C22: in every interleaving the checkpoint a spawn instruction carries is
\* the checkpoint stored on the session at the moment it is activated: the
\* tick that wins the activation of a candidate holds, in the copy the
\* instruction is built from, the checkpoint the row has at that step, and
\* prints that checkpoint.
C22_SpawnCarriesStoredCheckpoint ==
  [][\A p \in Procs :
       /\ (procs[p].pc = "t_activate" /\ procs'[p].pc = "t_activate_event") =>
            procs[p].pending[procs[p].j].checkpoint
              = RowOf(table', procs[p].pending[procs[p].j].id).checkpoint
       /\ (procs[p].pc = "t_activate_event" /\ procs'[p].pc = "done") =>
            /\ procs'[p].out.action = "spawn"
            /\ procs'[p].out.id = procs[p].pending[procs[p].j].id
            /\ procs'[p].out.checkpoint = procs[p].pending[procs[p].j].checkpoint]_vars

\* The events of one type logged for session id.
EventsOf(event_types, id) ==
  {k \in 1..Len(events) :
     events[k].event_type \in event_types /\ events[k].session_id = id}

\* C23: every transition is written with its event as one transaction, so a
\* command that crashes between its store writes leaves the store consistent:
\* once no command is running (nothing more will be appended), every session
\* that has made a transition has the transition's event in the log: a
\* session created by wake has session_created, an active one
\* session_activated, a complete one session_completed, a sleeping one
\* session_sleeping or children_spawned, and one woken to pending
\* trigger_satisfied.
C23_TransitionsHaveEvents ==
  Quiet =>
    \A i \in 1..Len(table) :
      LET row == table[i]
      IN /\ row.parent_id = NoId => EventsOf({"session_created"}, row.id) # {}
         /\ row.status = "active" => EventsOf({"session_activated"}, row.id) # {}
         /\ row.status = "complete" => EventsOf({"session_completed"}, row.id) # {}
         /\ row.status = "sleeping" =>
              EventsOf({"session_sleeping", "children_spawned"}, row.id) # {}
         /\ (row.status = "pending" /\ row.trigger # NoText) =>
              EventsOf({"trigger_satisfied"}, row.id) # {}

\* The effect of one call of try_update_session_status(id, expected, new, now).
CasEffect ==
  LET args == procs'[1].req
      id == args.session_id
      hit == HasId(table, id) /\ StatusOf(table, id) = as_str(args.result)
  IN /\ procs'[1].out.resp = "true" <=> hit
     /\ hit => /\ StatusOf(table', id) = as_str(args.checkpoint)
               /\ RowOf(table', id).updated_at = procs'[1].now
     /\ \A i \in 1..Len(table) :
          (table[i].id # id \/ ~hit) => table'[i] = table[i]
     /\ Len(table') = Len(table)

\* This call repeats the arguments of the call before it, which succeeded.
CasRepeated ==
  /\ procs[1].kind = "cas"
  /\ procs[1].out.resp = "true"
  /\ procs'[1].req = procs[1].req

C25_WakeAdvancesUpdatedAt ==
  [][\A p \in Procs :
       (procs[p].pc = "t_wake" /\ procs'[p].pc = "t_wake_event") =>
         LET id == procs[p].sleeping[procs[p].idx].id
         IN /\ StatusOf(table, id) = "sleeping"
            /\ StatusOf(table', id) = "pending"
            /\ RowOf(table', id).updated_at > RowOf(table, id).updated_at]_vars

\* C26: get_sessions_by_status returns the sessions of a status in created_at
\* ascending order (so the first pending session a tick tries, and in
\* serialized execution activates, is the one created earliest).
C26_ByStatusInCreatedOrder ==
  \A status \in Variants :
    LET sessions == get_sessions_by_status(table, status)
    IN \A i \in 1..Len(sessions) : \A j \in 1..Len(sessions) :
         i < j => sessions[i].created_at <= sessions[j].created_at

\* C27: only the tick performs sleeping -> pending and pending -> active: no
\* step of a request or of a wake causes either, and a request changes the
\* status of no existing session other than the one its session_id names
\* (a wake changes the status of none).
C27_OnlyTickWakesAndActivates ==
  [][\A p \in Procs :
       procs'[p] # procs[p] =>
         /\ \A i \in 1..Len(table) :
              (\/ table[i].status = "sleeping" /\ table'[i].status = "pending"
               \/ table[i].status = "pending" /\ table'[i].status = "active") =>
                 procs[p].kind = "process" /\ procs[p].pc \in {"t_wake", "t_activate"}
         /\ procs'[p].kind = "request" =>
              \A i \in 1..Len(table) :
                table[i].id # procs[p].req.session_id =>
                  table'[i].status = table[i].status
         /\ procs'[p].kind = "wake" =>
              \A i \in 1..Len(table) : table'[i].status = table[i].status]_vars

\* A request has changed its session and answered ok, and a tick has woken
\* a session and activated one.
C27_Witness ==
  \E p \in Procs : \E q \in Procs :
    /\ procs[p].kind = "request"
    /\ procs[p].pc = "done"
    /\ procs[p].out.resp = "ok"
    /\ procs[q].kind = "process"
    /\ procs[q].pc = "done"
    /\ procs[q].woke # {}
    /\ procs[q].out.action = "spawn"
    /\ Len(table) > 1

\* C28: within a request the state mutation precedes its event log entry:
\* the request reaches its insert_event only by the statement that writes
\* the session's new status (complete or sleeping), which appends nothing;
\* session_completed and session_sleeping are appended only from there; and
\* inside spawn_and_sleep's transaction the parent is sleeping in every
\* prefix of the statements that holds the children_spawned event.
C28_WriteBeforeEvent ==
  [][\A p \in Procs :
       (procs'[p] # procs[p] /\ procs'[p].kind = "request") =>
         LET pr == procs[p]
             id == pr.req.session_id
             logged == Len(events') > Len(events)
             last == events'[Len(events')]
         IN /\ procs'[p].pc = "r_event" =>
                 /\ events' = events
                 /\ StatusOf(table', id) =
                      (IF pr.req.type = "complete" THEN "complete" ELSE "sleeping")
                 /\ RowOf(table', id).updated_at = pr.now
            /\ (logged /\ last.event_type \in {"session_completed", "session_sleeping"}) =>
                 pr.pc = "r_event" /\ last.session_id = id /\ table' = table
            /\ (logged /\ last.event_type = "children_spawned") =>
                 /\ StatusOf(table', id) = "sleeping"
                 /\ \A failAt \in 0..(Len(pr.news) + 2) :
                      LET b == SpawnAndSleepBody(table, events, id, pr.news,
                                 resolve_trigger(pr.req.trigger, ChildIds(pr.news)),
                                 pr.req.checkpoint, pr.now, failAt)
                      IN b.evs # events => StatusOf(b.tbl, id) = "sleeping"]_vars

\* A complete request has written the status and not yet logged: the session
\* is complete and the log holds no session_completed for it.
C28_Witness ==
  \E p \in Procs :
    /\ procs[p].pc = "r_event"
    /\ procs[p].req.type = "complete"
    /\ StatusOf(table, procs[p].req.session_id) = "complete"
    /\ EventsOf({"session_completed"}, procs[p].req.session_id) = {}

\* C29: wake(ken, task) adds exactly one new session, with the given ken and
\* task, status pending and null parent_id, trigger, checkpoint and result,
\* appends one session_created event for it, and leaves every existing
\* session unchanged.
C29_WakeEffect ==
  [][\A p \in Procs :
       (procs'[p] # procs[p] /\ procs'[p].kind = "wake") =>
         /\ procs'[p].pc = "w_insert" =>
              /\ \E spec \in WakeSpecs :
                   /\ procs'[p].news[1].ken = spec.ken
                   /\ procs'[p].news[1].task = spec.task
              /\ table' = table /\ events' = events
         /\ procs[p].pc = "w_insert" =>
              /\ procs'[p].pc = "w_event"
              /\ Len(table') = Len(table) + 1
              /\ \A i \in 1..Len(table) : table'[i] = table[i]
              /\ LET row == table'[Len(table')]
                 IN /\ row.id \notin TableIds(table)
                    /\ row.ken = procs[p].news[1].ken
                    /\ row.task = procs[p].news[1].task
                    /\ row.status = "pending"
                    /\ row.parent_id = NoId
                    /\ row.trigger = NoText
                    /\ row.checkpoint = Null
                    /\ row.result = Null
              /\ events' = events
         /\ procs[p].pc = "w_event" =>
              /\ table' = table
              /\ events' = Append(events,
                    Event_new("session_created", procs[p].news[1].id, NoData))
              /\ procs'[p].out.exit = "ok"
              /\ procs'[p].out.id = procs[p].news[1].id]_vars

\* A wake has returned the id of the session it added to a store that held
\* a session already: the new row is pending and the last event is its
\* session_created.
C29_Witness ==
  \E p \in Procs :
    /\ procs[p].kind = "wake"
    /\ procs[p].pc = "done"
    /\ procs[p].out.exit = "ok"
    /\ Len(table) > 1
    /\ table[Len(table)].id = procs[p].out.id
    /\ table[Len(table)].status = "pending"
    /\ events[Len(events)] = Event_new("session_created", procs[p].out.id, NoData)

\* What the store says of a trigger: all_complete holds iff every id of the
\* list is the id of a session whose status is complete, any_complete iff at
\* least one is; an id no session has, or a session in another status, is
\* not complete.
CompleteInStore(id) ==
  \E i \in 1..Len(table) : table[i].id = id /\ table[i].status = "complete"

SatisfiedInStore(trigger) ==
  \/ /\ trigger.tag = "all_complete"
     /\ \A k \in 1..Len(trigger.ids) : CompleteInStore(trigger.ids[k])
  \/ /\ trigger.tag = "any_complete"
     /\ \E k \in 1..Len(trigger.ids) : CompleteInStore(trigger.ids[k])

\* C30: trigger evaluation is a pure function of the trigger and the status
\* lookup: all_complete is satisfied iff every listed id looks up as
\* complete, any_complete iff at least one does, an unknown id or any other
\* status counting as not complete; and evaluating changes no state.  Both
\* is_satisfied on the store and the tick's evaluation, lookup by lookup,
\* give that verdict, and the evaluation's steps leave the store as it was.
C30_TriggerEvaluation ==
  [][\A p \in Procs :
       (procs'[p] # procs[p] /\ procs[p].pc \in {"t_sleeping", "t_eval"}) =>
         /\ table' = table
         /\ events' = events
         /\ \A i \in 1..Len(table) :
              table[i].trigger # NoText =>
                (is_satisfied(from_json(table[i].trigger), table)
                   <=> SatisfiedInStore(from_json(table[i].trigger)))
         /\ procs'[p].pc = "t_wake" =>
              SatisfiedInStore(from_json(procs'[p].sleeping[procs'[p].idx].trigger))
         /\ procs'[p].pc = "t_pending" =>
              \A i \in 1..Len(procs'[p].sleeping) :
                ~SatisfiedInStore(from_json(procs'[p].sleeping[i].trigger))]_vars

\* The tick has found any_complete over an unknown id and a complete
\* session satisfied: it is about to wake the sleeper.
C30_Witness ==
  \E p \in Procs :
    /\ procs[p].pc = "t_wake"
    /\ from_json(procs[p].sleeping[procs[p].idx].trigger)
         = AnyComplete(<< UnknownId, 2 >>)
    /\ StatusOf(table, 2) = "complete"
    /\ StatusOf(table, 1) = "active"

C32_StatusRoundTrip ==
  LET all == {"Pending", "Active", "Sleeping", "Complete", "Failed"}
  IN /\ \A v \in all : from_str(as_str(v)) = v
     /\ \A v \in all : \A w \in all : as_str(v) = as_str(w) => v = w
     /\ {as_str(v) : v \in all} = Statuses
     /\ \A i \in 1..Len(table) :
          LET r == get_session(table, table[i].id)
          IN r.ok /\ r.session.status \in all /\ as_str(r.session.status) = table[i].status
     /\ (procs[1].kind = "cas" /\ procs[1].out.resp = "true") =>
          get_session(table, procs[1].req.session_id).session.status
            = procs[1].req.checkpoint

\* A call has moved a failed session to sleeping: the store held the string
\* form of Failed, matched it, and now reads back Sleeping.
C32_Witness ==
  /\ procs[1].kind = "cas"
  /\ procs[1].req = CasArgs(1, "Failed", "Sleeping")
  /\ procs[1].out.resp = "true"
  /\ get_session(table, 1).session.status = "Sleeping"
  /\ get_session(table, 2).session.status = "Failed"

\* The triggers over lists of up to MaxTriggerIds session ids (ids of the
\* store and an id no session has) and the timeouts up to LongTimeout.
RoundTripTriggers ==
  {AllComplete(ids) : ids \in EvalIdLists}
  \cup {AnyComplete(ids) : ids \in EvalIdLists}
  \cup {TimeoutSeconds(n) : n \in 0..LongTimeout}

\* C33: trigger round-trip: for every trigger t that is not the placeholder
\* form (all_complete or any_complete over a list of session ids,
\* timeout_seconds n), parsing the serialized form of t yields t; so every
\* trigger text the store holds that is the serialized form of a trigger
\* parses to that trigger.
C33_TriggerRoundTrip ==
  /\ \A t \in RoundTripTriggers :
       /\ ~ContainsStr(Trigger_to_string(t), Placeholder)
       /\ from_json(Trigger_to_string(t)) = t
  /\ \A i \in 1..Len(table) :
       \A t \in RoundTripTriggers :
         table[i].trigger = Trigger_to_string(t) => from_json(table[i].trigger) = t

\* A session sleeps on the serialized form of timeout_seconds LongTimeout
\* and another on the serialized form of all_complete over its two children.
C33_Witness ==
  \E i \in 1..Len(table) : \E j \in 1..Len(table) :
    /\ table[i].trigger = Trigger_to_string(TimeoutSeconds(LongTimeout))
    /\ from_json(table[i].trigger) = TimeoutSeconds(LongTimeout)
    /\ Len(from_json(table[j].trigger).ids) = 2
    /\ table[j].trigger = Trigger_to_string(from_json(table[j].trigger))

\* C34: once a session is complete, its status and its result never change
\* again, in every interleaving of ticks and requests (a request that read
\* the session as active before a concurrent complete was applied included).
C34_CompleteIsFinal ==
  [][\A i \in 1..Len(table) :
       table[i].status = "complete" =>
         /\ table'[i].id = table[i].id
         /\ table'[i].status = "complete"
         /\ table'[i].result = table[i].result]_vars

\* C35: a tick changes only the status and updated_at of the sessions it
\* wakes or activates: a step of a tick creates and deletes no session, and
\* every row it changes was sleeping or pending at that step and keeps its
\* id, ken, task, parent_id, trigger, checkpoint, result and created_at; a
\* session that is active, complete or failed when the tick touches it is
\* left as it is.
C35_TickFrame ==
  [][\A p \in Procs :
       (procs[p].kind = "process" /\ procs'[p] # procs[p]) =>
         /\ Len(table') = Len(table)
         /\ \A i \in 1..Len(table) :
              \/ table'[i] = table[i]
              \/ /\ table[i].status \in {"sleeping", "pending"}
                 /\ table'[i] =
                      [table[i] EXCEPT
                         !.status = IF table[i].status = "sleeping"
                                    THEN "pending" ELSE "active",
                         !.updated_at = procs[p].now]
         /\ \A i \in 1..Len(table) : \A j \in 1..Len(table) :
              (table'[i] # table[i] /\ table'[j] # table[j]) => i = j]_vars

\* A tick has tried its first candidate, which another tick had activated in
\* the meantime, left it as it was and moved on to its second candidate.
C35_Witness ==
  \E p \in Procs :
    /\ procs[p].pc = "t_activate"
    /\ procs[p].j = 2
    /\ procs[p].nact = 0
    /\ StatusOf(table, procs[p].pending[1].id) = "active"
    /\ RowOf(table, procs[p].pending[1].id).updated_at # procs[p].now

\* The events of one type the log holds for a session, and the ticks that
\* have made a transition of a session and are about to log it.
Logged(evs, event_type, id) ==
  Cardinality({k \in 1..Len(evs) :
                 evs[k].event_type = event_type /\ evs[k].session_id = id})

OwedActivations(ps, id) ==
  Cardinality({p \in Procs :
                 ps[p].pc = "t_activate_event" /\ ps[p].pending[ps[p].j].id = id})

OwedWakes(ps, id) ==
  Cardinality({p \in Procs :
                 ps[p].pc = "t_wake_event" /\ ps[p].sleeping[ps[p].idx].id = id})

\* This step moved the session from one status to the other: 1, else 0.
Moved(id, from, to) ==
  IF HasId(table, id) /\ StatusOf(table, id) = from /\ StatusOf(table', id) = to
  THEN 1 ELSE 0

\* C36: without crashes, once all running commands have finished, every
\* session has as many session_activated events as pending -> active
\* transitions and as many trigger_satisfied events as sleeping -> pending
\* transitions, in every interleaving.  Step by step: the events logged plus
\* the events the running ticks still owe grow by one exactly when the
\* transition happens, so the counts agree whenever no tick owes an event.
C36_EventsMatchTransitions ==
  [][\A id \in Ids :
       /\ (Logged(events', "session_activated", id) + OwedActivations(procs', id))
            - (Logged(events, "session_activated", id) + OwedActivations(procs, id))
          = Moved(id, "pending", "active")
       /\ (Logged(events', "trigger_satisfied", id) + OwedWakes(procs', id))
            - (Logged(events, "trigger_satisfied", id) + OwedWakes(procs, id))
          = Moved(id, "sleeping", "pending")]_vars

\* No command is running and a session that was activated, put to sleep,
\* woken and activated again has two session_activated events and one
\* trigger_satisfied event.
C36_Witness ==
  /\ Quiet
  /\ \E id \in Ids :
       /\ HasId(table, id)
       /\ StatusOf(table, id) = "active"
       /\ Logged(events, "session_activated", id) = 2
       /\ Logged(events, "trigger_satisfied", id) = 1

\* The stored forms of all_complete and any_complete over an empty list.
EmptyAll == Trigger_to_string(AllComplete(<< >>))
EmptyAny == Trigger_to_string(AnyComplete(<< >>))

\* C37: all_complete over an empty id list is satisfied and any_complete
\* over an empty id list is never satisfied: a spawn_and_sleep with zero
\* children and the trigger all_complete over __CHILDREN__ stores
\* all_complete [] and is woken by the next tick (no session sleeping on it
\* is left when a tick's wake scan ends), while a session sleeping on
\* any_complete [] stays as it is in every step.
C37_EmptyLists ==
  [][/\ is_satisfied(AllComplete(<< >>), table)
     /\ ~is_satisfied(AnyComplete(<< >>), table)
     /\ \A p \in Procs :
          /\ (/\ procs[p].pc = "r_spawn"
              /\ procs'[p].out.resp = "ok"
              /\ procs[p].req.children = << >>) =>
                /\ StatusOf(table', procs[p].req.session_id) = "sleeping"
                /\ RowOf(table', procs[p].req.session_id).trigger = EmptyAll
          /\ (/\ procs[p].kind = "process"
              /\ procs[p].pc # "t_pending"
              /\ procs'[p].pc = "t_pending") =>
                \A i \in 1..Len(table') :
                  table'[i].trigger = EmptyAll => table'[i].status # "sleeping"
     /\ \A i \in 1..Len(table) :
          (table[i].status = "sleeping" /\ table[i].trigger = EmptyAny) =>
            table'[i] = table[i]]_vars

\* A tick has woken the session that slept on all_complete [] after a
\* spawn_and_sleep without children, and has passed over a session that
\* sleeps on any_complete [].
C37_Witness ==
  \E p \in Procs :
    /\ procs[p].kind = "process"
    /\ procs[p].pc = "done"
    /\ \E id \in procs[p].woke :
         /\ RowOf(table, id).trigger = EmptyAll
         /\ Logged(events, "children_spawned", id) = 1
    /\ \E i \in 1..Len(table) :
         /\ table[i].status = "sleeping"
         /\ table[i].trigger = EmptyAny
         /\ Logged(events, "session_sleeping", table[i].id) = 1

====
